---- MODULE Spec2Model ----
(***************************************************************************)
(* Model of main.py: the hourly polar-bear tweet counter.                  *)
(*                                                                         *)
(* One process (main) builds a PolarStats object, loads the data file,     *)
(* pages through the search feed, counts the results of the previous UTC   *)
(* hour into two histograms and writes the data file back.  The wall       *)
(* clock, the search feed and the data file are the environment.           *)
(***************************************************************************)
EXTENDS Integers, Sequences, FiniteSets, TLC

VARIABLES
    clock,        \* wall clock in UTC, to the hour: datetime.now(timezone.utc)
    file,         \* content of the data file (self._data_file_path)
    data,         \* self._data
    pc,           \* position of the process
    page,         \* local page of get_polar_data
    response,     \* results of the current page not yet iterated over
    result_time,  \* local result_time of get_polar_data
    runs,         \* number of processes started so far
    ticks,        \* number of hours the clock has advanced so far
    fetches,      \* history: get_response calls issued by this run
    fetchFailed,  \* history: the last get_response call of this run raised
    emptyAt,      \* history: page number of the first page of this run with no results (0: none)
    targetHour,   \* history: the hour before the clock's hour when update() was called
    matchCount,   \* history: iterated results of this run whose time is targetHour
    lastCompare,  \* history: compare_time of the latest time_compare call of this run
    before,       \* history: self._data right after load_data of this run
    fileBefore    \* history: the data file when update() was called

vars == <<clock, file, data, pc, page, response, result_time, runs, ticks,
          fetches, fetchFailed, emptyAt, targetHour, matchCount, lastCompare,
          before, fileBefore>>

(***************************************************************************)
(* Bounds                                                                  *)
(***************************************************************************)
MaxRuns  == 2    \* processes started
MaxPage  == 2    \* pages that answer with results; later requests raise
MaxItems == 2    \* results on one page
MaxTicks == 2    \* hours the clock advances

(***************************************************************************)
(* Values                                                                  *)
(***************************************************************************)
None      == [none |-> TRUE]        \* Python None
Absent    == [absent |-> TRUE]      \* no data file on disk
Empty     == [empty |-> TRUE]       \* a data file of zero bytes
Malformed == [malformed |-> TRUE]   \* a created_at text strptime rejects

Time(y, m, d, h) == [year |-> y, month |-> m, day |-> d, hour |-> h]

\* The clock when the first process starts.
StartClock == Time(2013, 2, 1, 0)

\* created_at values the feed may carry.
CreatedAt ==
    { Time(2013, 1, 31, 23), Time(2013, 2, 1, 0), Time(2013, 2, 1, 1),
      Time(2013, 1, 30, 23), Malformed }

IsLeap(y) == (y % 4 = 0 /\ y % 100 # 0) \/ y % 400 = 0

DaysInMonth(y, m) ==
    IF m = 2 THEN (IF IsLeap(y) THEN 29 ELSE 28)
    ELSE IF m \in {4, 6, 9, 11} THEN 30 ELSE 31

\* t - datetime.timedelta(hours=1)
MinusOneHour(t) ==
    IF t.hour > 0 THEN [t EXCEPT !.hour = t.hour - 1]
    ELSE IF t.day > 1 THEN [t EXCEPT !.day = t.day - 1, !.hour = 23]
    ELSE IF t.month > 1
         THEN Time(t.year, t.month - 1, DaysInMonth(t.year, t.month - 1), 23)
         ELSE Time(t.year - 1, 12, 31, 23)

\* t + one hour: the clock moving on
PlusOneHour(t) ==
    IF t.hour < 23 THEN [t EXCEPT !.hour = t.hour + 1]
    ELSE IF t.day < DaysInMonth(t.year, t.month)
         THEN [t EXCEPT !.day = t.day + 1, !.hour = 0]
    ELSE IF t.month < 12 THEN Time(t.year, t.month + 1, 1, 0)
         ELSE Time(t.year + 1, 1, 1, 0)

\* Sequences over S of length 0..n
SeqUpTo(S, n) == UNION { [1..k -> S] : k \in 0..n }

(***************************************************************************)
(* load_file, save_file, load_data                                         *)
(***************************************************************************)
data_default ==
    [hourly  |-> [x \in 0..23 |-> 0],
     monthly |-> [x \in 1..12 |-> 0]]

\* open() raises IOError for a missing file; yaml.load of a zero-byte file
\* is None; yaml.load of a dumped document is the dumped mapping.
load_file(f, default) ==
    IF f = Absent THEN default
    ELSE IF f = Empty THEN None
    ELSE f

\* compare and compare_time of time_compare
compare_time(now) == MinusOneHour(now)

\* strptime keeps the fields as written in the text, for any UTC offset
strptime(created_at) ==
    Time(created_at.year, created_at.month, created_at.day, created_at.hour)

time_compare(result, now) == compare_time(now) = strptime(result)

\* CountMatch with the counters stepping the wrong way
CountMatch_decrement(d, rt) ==
    [d EXCEPT !.monthly[rt.month] = @ - 1, !.hourly[rt.hour] = @ - 1]

\* lines 102-103
CountMatch(d, rt) ==
    [d EXCEPT !.monthly[rt.month] = @ + 1, !.hourly[rt.hour] = @ + 1]

\* locals of get_polar_data that no line ever changes
hourly  == 0
monthly == 0

\* lines 112-117
SlotUpdate(d, rt) ==
    LET reset == IF rt.day = 1 /\ rt.hour = 0
                 THEN [d EXCEPT !.monthly[rt.month] = 0]
                 ELSE d
    IN  [reset EXCEPT !.monthly[rt.month] = @ + monthly,
                      !.hourly[rt.hour] = hourly]

(***************************************************************************)
(* The process                                                             *)
(***************************************************************************)
Init ==
    /\ clock = StartClock
    /\ file = Absent
    /\ data = None
    /\ pc = "idle"
    /\ page = 1
    /\ response = <<>>
    /\ result_time = None
    /\ runs = 0
    /\ ticks = 0
    /\ fetches = 0
    /\ fetchFailed = FALSE
    /\ emptyAt = 0
    /\ targetHour = None
    /\ matchCount = 0
    /\ lastCompare = None
    /\ before = None
    /\ fileBefore = Absent

\* The clock passes an hour boundary, at any moment.
Tick ==
    /\ ticks < MaxTicks
    /\ clock' = PlusOneHour(clock)
    /\ ticks' = ticks + 1
    /\ UNCHANGED <<file, data, pc, page, response, result_time, runs,
                   fetches, fetchFailed, emptyAt, targetHour, matchCount,
                   lastCompare, before, fileBefore>>

\* main: PolarStats(), update() up to the first line of get_polar_data.
\* A new object has _data None, so update always loads.
Update ==
    /\ pc \in {"idle", "done", "failed", "stopped"}
    /\ runs < MaxRuns
    /\ runs' = runs + 1
    /\ data' = load_file(file, data_default)
    /\ page' = 1
    /\ response' = <<>>
    /\ result_time' = None
    /\ pc' = "fetch"
    /\ fetches' = 0
    /\ fetchFailed' = FALSE
    /\ emptyAt' = 0
    /\ targetHour' = MinusOneHour(clock)
    /\ matchCount' = 0
    /\ lastCompare' = None
    /\ before' = data'
    /\ fileBefore' = file
    /\ UNCHANGED <<clock, file, ticks>>

\* get_response without the bare except: the exception leaves the run
get_response_propagates ==
    /\ pc = "fetch"
    /\ fetches' = fetches + 1
    /\ \/ /\ fetchFailed' = TRUE
          /\ pc' = "failed"
          /\ UNCHANGED <<response, emptyAt>>
       \/ /\ page <= MaxPage
          /\ \E results \in SeqUpTo(CreatedAt, MaxItems) :
                /\ response' = results
                /\ emptyAt' = IF results = <<>> /\ emptyAt = 0 THEN page ELSE emptyAt
          /\ fetchFailed' = FALSE
          /\ pc' = "results"
    /\ UNCHANGED <<clock, file, data, page, result_time, runs, ticks,
                   targetHour, matchCount, lastCompare, before, fileBefore>>

\* get_response with a page of no results leaving the loop as well
get_response_stops_on_empty ==
    /\ pc = "fetch"
    /\ fetches' = fetches + 1
    /\ \/ /\ fetchFailed' = TRUE
          /\ pc' = "final"
          /\ UNCHANGED <<response, emptyAt>>
       \/ /\ page <= MaxPage
          /\ \E results \in SeqUpTo(CreatedAt, MaxItems) :
                /\ response' = results
                /\ emptyAt' = IF results = <<>> /\ emptyAt = 0 THEN page ELSE emptyAt
                /\ pc' = IF results = <<>> THEN "final" ELSE "results"
          /\ fetchFailed' = FALSE
    /\ UNCHANGED <<clock, file, data, page, result_time, runs, ticks,
                   targetHour, matchCount, lastCompare, before, fileBefore>>

\* lines 92-96: one get_response call; any exception leaves the loop.
get_response ==
    /\ pc = "fetch"
    /\ fetches' = fetches + 1
    /\ \/ /\ fetchFailed' = TRUE
          /\ pc' = "final"
          /\ UNCHANGED <<response, emptyAt>>
       \/ /\ page <= MaxPage
          /\ \E results \in SeqUpTo(CreatedAt, MaxItems) :
                /\ response' = results
                /\ emptyAt' = IF results = <<>> /\ emptyAt = 0 THEN page ELSE emptyAt
          /\ fetchFailed' = FALSE
          /\ pc' = "results"
    /\ UNCHANGED <<clock, file, data, page, result_time, runs, ticks,
                   targetHour, matchCount, lastCompare, before, fileBefore>>

\* ForResult with a created_at that does not parse skipped
ForResult_skips_malformed ==
    /\ pc = "results"
    /\ response # <<>>
    /\ LET result == Head(response) IN
       IF result = Malformed
       THEN /\ response' = Tail(response)
            /\ UNCHANGED <<data, pc, result_time, matchCount, lastCompare>>
       ELSE /\ result_time' = strptime(result)
            /\ lastCompare' = compare_time(clock)
            /\ matchCount' = IF strptime(result) = targetHour
                             THEN matchCount + 1 ELSE matchCount
            /\ response' = Tail(response)
            /\ IF time_compare(result, clock)
               THEN IF data = None
                    THEN /\ pc' = "failed"
                         /\ data' = data
                    ELSE /\ data' = CountMatch(data, strptime(result))
                         /\ pc' = pc
               ELSE UNCHANGED <<data, pc>>
    /\ UNCHANGED <<clock, file, page, runs, ticks, fetches, fetchFailed,
                   emptyAt, targetHour, before, fileBefore>>

\* lines 98-103: one iteration of the for loop.
ForResult ==
    /\ pc = "results"
    /\ response # <<>>
    /\ LET result == Head(response) IN
       IF result = Malformed
       THEN \* strptime raises ValueError, nothing catches it
            /\ pc' = "failed"
            /\ lastCompare' = compare_time(clock)
            /\ UNCHANGED <<data, response, result_time, matchCount>>
       ELSE /\ result_time' = strptime(result)
            /\ lastCompare' = compare_time(clock)
            /\ matchCount' = IF strptime(result) = targetHour
                             THEN matchCount + 1 ELSE matchCount
            /\ response' = Tail(response)
            /\ IF time_compare(result, clock)
               THEN IF data = None
                    THEN \* None is not subscriptable: TypeError
                         /\ pc' = "failed"
                         /\ data' = data
                    ELSE /\ data' = CountMatch(data, strptime(result))
                         /\ pc' = pc
               ELSE UNCHANGED <<data, pc>>
    /\ UNCHANGED <<clock, file, page, runs, ticks, fetches, fetchFailed,
                   emptyAt, targetHour, before, fileBefore>>

\* line 105
NextPage ==
    /\ pc = "results"
    /\ response = <<>>
    /\ page' = page + 1
    /\ pc' = "fetch"
    /\ UNCHANGED <<clock, file, data, response, result_time, runs, ticks,
                   fetches, fetchFailed, emptyAt, targetHour, matchCount,
                   lastCompare, before, fileBefore>>

\* lines 108-117
Finish ==
    /\ pc = "final"
    /\ LET rt == IF result_time # None THEN result_time
                 ELSE MinusOneHour(clock)
       IN  /\ result_time' = rt
           /\ IF data = None
              THEN /\ pc' = "failed"
                   /\ data' = data
              ELSE /\ data' = SlotUpdate(data, rt)
                   /\ pc' = "save"
    /\ UNCHANGED <<clock, file, page, response, runs, ticks, fetches,
                   fetchFailed, emptyAt, targetHour, matchCount, lastCompare,
                   before, fileBefore>>

\* save_data, save_file run to the end: the file is opened for writing, the
\* document is dumped and the file closed.
save_data ==
    /\ pc = "save"
    /\ file' = data
    /\ pc' = "done"
    /\ UNCHANGED <<clock, data, page, response, result_time, runs, ticks,
                   fetches, fetchFailed, emptyAt, targetHour, matchCount,
                   lastCompare, before, fileBefore>>

Next ==
    \/ Tick
    \/ Update
    \/ get_response
    \/ ForResult
    \/ NextPage
    \/ Finish
    \/ save_data

Spec == Init /\ [][Next]_vars

(***************************************************************************)
(* The same process, with save_file in its two steps and the process able  *)
(* to stop between them.  open(path, 'w') truncates the file; the dumped   *)
(* document reaches the disk when the with block closes the file.          *)
(***************************************************************************)
save_open ==
    /\ pc = "save"
    /\ file' = Empty
    /\ pc' = "dump"
    /\ UNCHANGED <<clock, data, page, response, result_time, runs, ticks,
                   fetches, fetchFailed, emptyAt, targetHour, matchCount,
                   lastCompare, before, fileBefore>>

save_dump ==
    /\ pc = "dump"
    /\ file' = data
    /\ pc' = "done"
    /\ UNCHANGED <<clock, data, page, response, result_time, runs, ticks,
                   fetches, fetchFailed, emptyAt, targetHour, matchCount,
                   lastCompare, before, fileBefore>>

\* The process is killed (power loss, SIGKILL) while save_file runs.
Stop ==
    /\ pc \in {"save", "dump"}
    /\ pc' = "stopped"
    /\ UNCHANGED <<clock, file, data, page, response, result_time, runs,
                   ticks, fetches, fetchFailed, emptyAt, targetHour,
                   matchCount, lastCompare, before, fileBefore>>

NextStop ==
    \/ Tick
    \/ Update
    \/ get_response
    \/ ForResult
    \/ NextPage
    \/ Finish
    \/ save_open
    \/ save_dump
    \/ Stop

SpecStop == Init /\ [][NextStop]_vars

(***************************************************************************)
(* Properties                                                              *)
(***************************************************************************)
\* the record a later load_data reads from the file f
Loaded(f) == load_file(f, data_default)

KeysOK(d) ==
    /\ DOMAIN d = {"hourly", "monthly"}
    /\ DOMAIN d.hourly = 0..23
    /\ DOMAIN d.monthly = 1..12
    /\ \A h \in 0..23 : d.hourly[h] \in Nat
    /\ \A m \in 1..12 : d.monthly[m] \in Nat

C2_HourlyReplaced ==
    pc = "done" => data.hourly[targetHour.hour] = matchCount

\* C3: after a completed run whose target hour is day 1, hour 0, the
\* monthly slot of the target month holds the run's match count.
C3_MonthReset ==
    (pc = "done" /\ targetHour.day = 1 /\ targetHour.hour = 0)
        => data.monthly[targetHour.month] = matchCount

\* C4: after a completed run whose target hour is not day 1, hour 0, the
\* monthly slot of the target month has grown by the run's match count.
C4_MonthAccumulate ==
    (pc = "done" /\ ~(targetHour.day = 1 /\ targetHour.hour = 0))
        => data.monthly[targetHour.month]
             = before.monthly[targetHour.month] + matchCount

C6_FixedKeySets ==
    /\ data # None => KeysOK(data)
    /\ KeysOK(Loaded(file))

C6_Witness ==
    /\ runs = 2
    /\ pc = "failed"
    /\ file # Absent
    /\ \E h \in 0..23 : data.hourly[h] > 0
    /\ \E m \in 1..12 : file.monthly[m] > 0

\* C7: a created_at that does not parse fails the run on the spot: the item
\* is not skipped, no further page is requested, save is not called and the
\* data file stays as it was before the run.
C7_ParseFailureIsFatal ==
    /\ [](pc = "failed" => file = fileBefore)
    /\ [][ /\ ( /\ pc = "results" /\ response # <<>>
                /\ Head(response) = Malformed
                /\ <<pc, response>>' # <<pc, response>> )
              => (pc' = "failed" /\ file' = file /\ response' = response)
           /\ (pc = "failed" /\ pc' = pc)
              => (fetches' = fetches /\ page' = page /\ file' = file)
         ]_vars

C7_Witness ==
    /\ pc = "failed"
    /\ matchCount > 0
    /\ data # before
    /\ file = fileBefore

\* C8: when the process stops during save, a later load reads the complete
\* prior record or the complete new record.
C8_SaveIsAtomic ==
    pc = "stopped" => Loaded(file) \in {Loaded(fileBefore), data}

\* C9: a completed run leaves every hourly slot but the target hour's and
\* every monthly slot but the target month's as it was.
C9_OtherSlotsUnchanged ==
    pc = "done" =>
        /\ \A h \in (0..23) \ {targetHour.hour} :
              data.hourly[h] = before.hourly[h]
        /\ \A m \in (1..12) \ {targetHour.month} :
              data.monthly[m] = before.monthly[m]

\* C10: every item of a run is compared with the target hour computed when
\* the run started, and a run without items updates that hour's slots.
C10_OneTargetHourPerRun ==
    /\ lastCompare \in {None, targetHour}
    /\ (pc \in {"save", "done"} /\ lastCompare = None) => result_time = targetHour

====
